---- MODULE Spec2Model ----
(***************************************************************************)
(* Workout ledger and streak engine of backend/server.py.                  *)
(*                                                                         *)
(* The two JSON files (users.json, workouts.json) are the variables users  *)
(* and workouts, kept as sequences because the files hold JSON lists and   *)
(* every save rewrites the whole list.  The in-memory session dictionary   *)
(* is the variable sessions; the variable files tells whether each file    *)
(* holds a list at all.  A calendar day is an integer day number; a        *)
(* date string is a record [form, day]: form "date" is the canonical       *)
(* 'YYYY-MM-DD' text, form "datetime" is an ISO text with a time part      *)
(* ('YYYY-MM-DDTHH:MM:SS') that datetime.fromisoformat also accepts.       *)
(*                                                                         *)
(* Every endpoint is an `async def` whose body holds no await between its  *)
(* load and its save, so on the event loop a handler body runs to its end  *)
(* before another handler starts: one action per handler.                  *)
(***************************************************************************)
EXTENDS Integers, Sequences, FiniteSets, TLC

\* TLC keeps the fields of a record in the order in which their names first
\* occur in the module.  They occur here in alphabetical order and every
\* record below is written in that order, so each record is in normal form
\* as written.
FieldNames ==
    [applied |-> 1, board |-> 2, content |-> 3, cookie |-> 4,
     current_streak |-> 5, date |-> 6, day |-> 7, detail |-> 8,
     existed |-> 9, files |-> 10, form |-> 11, id |-> 12,
     is_current_user |-> 13, issued |-> 14, kind |-> 15,
     last_workout_date |-> 16, message |-> 17, name |-> 18, op |-> 19,
     pin |-> 20, rank |-> 21, readable |-> 22, req |-> 23, resp |-> 24,
     sessions |-> 25, sid |-> 26, snap |-> 27, stage |-> 28, status |-> 29,
     streak |-> 30, success |-> 31, today_date |-> 32, today_marked |-> 33,
     total_days |-> 34, total_workout_days |-> 35, uid |-> 36,
     user_id |-> 37, users |-> 38, with |-> 39, workout_done |-> 40,
     workout_history |-> 41, workouts |-> 42]

VARIABLES
    users,       \* content of users.json: sequence of user records
    workouts,    \* content of workouts.json: sequence of workout records
    sessions,    \* the sessions dict: token -> [user_id, name]
    issued,      \* number of session tokens generated so far
    today,       \* the day datetime.now().date() returns
    pending,     \* requests received whose handler has not run yet
    finished,    \* responses of the handled in-flight requests
    last,        \* history: the last request and its response
    before,      \* history: the stores as they were before the last request
    repeatOf,    \* history: the mark before last, when the last mark repeats it
    trip,        \* history: progress of a mark / unmark / mark sequence
    probe,       \* input and result of the last calculate_streak evaluation
    files        \* condition of each JSON file on disk: collection -> condition

vars == <<users, workouts, sessions, issued, today, pending, finished,
          last, before, repeatOf, trip, probe, files>>

-----------------------------------------------------------------------------
(* Bounds of the model. *)

MaxDay == 2          \* days 0..MaxDay can be named in requests
MaxTokens == 2       \* session tokens generated in one behaviour
MaxRecords == 3      \* length cap of workouts.json
MaxTracedRecords == 2    \* the cap while two users' requests are recorded
MaxSoloRecords == 3      \* the cap while one user's requests are recorded
MaxStreakLen == 4    \* length of the record lists given to calculate_streak
MaxPending == 2      \* requests in flight at once
MaxRequests == 3     \* requests submitted in one concurrent behaviour
MaxBoardLen == 3     \* length of workouts.json when the leaderboard is read
MaxAuthTokens == 2   \* session tokens generated while accounts are followed
MaxAuthRecords == 1  \* the cap of workouts.json while accounts are followed

Days == 0..MaxDay
FirstDay == MaxDay - 1   \* the day the process starts on; earlier days are past
Names == {"ann", "bob"}

NoToken == 0         \* a request without the session_id cookie
NoUser == 0          \* no user: user ids start at 1
TokenInputs == 0..MaxTokens

\* pins as texts: sequences of characters
AsciiDigits == {"0", "1", "2", "3", "4", "5", "6", "7", "8", "9"}
\* characters outside ASCII for which str.isdigit() is true as well, such as
\* ARABIC-INDIC DIGIT THREE
OtherDigits == {"U+0663"}
PinInputs == {<<"1", "2", "3", "4">>, <<"1", "2", "3">>}
NoPin == <<>>

-----------------------------------------------------------------------------
(* Date strings. *)

DateStr(form, day) == [day |-> day, form |-> form]

\* date.isoformat(): the canonical 'YYYY-MM-DD' text of a day
isoformat(day) == DateStr("date", day)

\* datetime.fromisoformat(s).date(): the day of an ISO text; it raises
\* ValueError exactly when ParsesAsIso(s) is false
fromisoformat(s) == s.day
ParsesAsIso(s) == s.form \in {"date", "datetime"}

NoDate == DateStr("none", 0)     \* req.date is None or ""
BadDate == DateStr("bad", 0)     \* a text fromisoformat rejects
\* the date texts requests carry: none, an unparsable one, every day in its
\* canonical form and one day with a time part
DateInputs ==
    {NoDate, BadDate} \cup {DateStr(f, d) : f \in {"date", "datetime"}, d \in Days}

\* a handler returns 401 before it reads req.date, so a request without a
\* session is tried with one date only
DateInputsFor(sid) ==
    IF sid = NoToken \/ sid \notin DOMAIN sessions THEN {NoDate} ELSE DateInputs

\* Python's < on two ISO texts: 'YYYY-MM-DD' texts order as their days, and
\* a text is smaller than any text it is a proper prefix of
StrLess(a, b) ==
    \/ a.day < b.day
    \/ a.day = b.day /\ a.form = "date" /\ b.form = "datetime"

-----------------------------------------------------------------------------
(* Durable store. *)

Workout(uid, ds, done) == [date |-> ds, user_id |-> uid, workout_done |-> done]

\* The condition of a JSON file as a load finds it:
\*   "list"        the file holds a JSON list (the variable is that list)
\*   "missing"     there is no such file
\*   "empty"       the file has no bytes
\*   "malformed"   the bytes are text that is not JSON (json.JSONDecodeError)
\*   "undecodable" the bytes are not UTF-8 text (UnicodeDecodeError)
\* The variable of a file that holds no list is <<>>.
FileConditions == {"list", "missing", "empty", "malformed", "undecodable"}
Intact == [users |-> "list", workouts |-> "list"]

\* init_data(): a file that does not exist is created holding []
init_data(fs) ==
    [users |-> IF fs.users = "missing" THEN "list" ELSE fs.users,
     workouts |-> IF fs.workouts = "missing" THEN "list" ELSE fs.workouts]

\* json.load(f) inside the try of a read: the only exceptions the except
\* clause names are json.JSONDecodeError and FileNotFoundError, so the
\* UnicodeDecodeError of bytes that are not UTF-8 leaves the function
LoadRaises(condition) == condition = "undecodable"

\* read_workouts() / read_users(): the list the file holds, [] when the
\* file was just created, has size 0 or does not parse
read_workouts == IF init_data(files).workouts = "list" THEN workouts ELSE <<>>
read_users == IF init_data(files).users = "list" THEN users ELSE <<>>

\* w['user_id'] == user_id and w['workout_done'] over the whole list
UserWorkouts(user_id, ws) ==
    SelectSeq(ws, LAMBDA w : w.user_id = user_id /\ w.workout_done)

\* the count taken over every user's records
total_days_all_users(user_id, ws) == Len(ws)

\* len([w for w in workouts if w['user_id'] == user_id and w['workout_done']])
total_days(user_id, ws) == Len(UserWorkouts(user_id, ws))

-----------------------------------------------------------------------------
(* Streak engine: calculate_streak. *)

\* list.sort(key=lambda x: x['date'], reverse=True): stable, descending.
\* InsertDesc puts w after every element whose key is not smaller.
RECURSIVE InsertDesc(_, _)
InsertDesc(sorted, w) ==
    IF sorted = <<>> THEN <<w>>
    ELSE IF StrLess(Head(sorted).date, w.date)
         THEN <<w>> \o sorted
         ELSE <<Head(sorted)>> \o InsertDesc(Tail(sorted), w)

\* the sort left out: the records in file order
FileOrder(ws) == ws

RECURSIVE SortDesc(_)
SortDesc(ws) ==
    IF ws = <<>> THEN <<>>
    ELSE InsertDesc(SortDesc(SubSeq(ws, 1, Len(ws) - 1)), ws[Len(ws)])

\* the loop with a matched day not moving expected_date back
RECURSIVE StreakWalkNoStepBack(_, _, _, _)
StreakWalkNoStepBack(uw, i, streak, expected_date) ==
    IF i > Len(uw) THEN streak
    ELSE LET workout_date == fromisoformat(uw[i].date) IN
         IF workout_date = expected_date
         THEN StreakWalkNoStepBack(uw, i + 1, streak + 1, expected_date)
         ELSE IF workout_date > expected_date
         THEN StreakWalkNoStepBack(uw, i + 1, streak, expected_date)
         ELSE streak

\* the loop without its two `continue` branches: a date after expected_date
\* ends it
RECURSIVE StreakWalkNoSkip(_, _, _, _)
StreakWalkNoSkip(uw, i, streak, expected_date) ==
    IF i > Len(uw) THEN streak
    ELSE LET workout_date == fromisoformat(uw[i].date) IN
         IF workout_date = expected_date
         THEN StreakWalkNoSkip(uw, i + 1, streak + 1, expected_date - 1)
         ELSE streak

\* the loop counting a record again when it repeats the day just counted
RECURSIVE StreakWalkCountsRepeats(_, _, _, _)
StreakWalkCountsRepeats(uw, i, streak, expected_date) ==
    IF i > Len(uw) THEN streak
    ELSE LET workout_date == fromisoformat(uw[i].date) IN
         IF workout_date = expected_date
         THEN StreakWalkCountsRepeats(uw, i + 1, streak + 1, expected_date - 1)
         ELSE IF workout_date = expected_date + 1
         THEN StreakWalkCountsRepeats(uw, i + 1, streak + 1, expected_date)
         ELSE IF workout_date > expected_date
         THEN StreakWalkCountsRepeats(uw, i + 1, streak, expected_date)
         ELSE streak

\* the loop counting the days of a gap instead of stopping at it
RECURSIVE StreakWalkCountsSpan(_, _, _, _)
StreakWalkCountsSpan(uw, i, streak, expected_date) ==
    IF i > Len(uw) THEN streak
    ELSE LET workout_date == fromisoformat(uw[i].date) IN
         IF workout_date = expected_date
         THEN StreakWalkCountsSpan(uw, i + 1, streak + 1, expected_date - 1)
         ELSE IF workout_date > expected_date
         THEN StreakWalkCountsSpan(uw, i + 1, streak, expected_date)
         ELSE StreakWalkCountsSpan(uw, i + 1,
                  streak + (expected_date - workout_date) + 1, workout_date - 1)

\* the for loop over user_workouts, from its i-th element on
RECURSIVE StreakWalk(_, _, _, _)
StreakWalk(uw, i, streak, expected_date) ==
    IF i > Len(uw) THEN streak
    ELSE LET workout_date == fromisoformat(uw[i].date) IN
         IF workout_date = expected_date
         THEN StreakWalk(uw, i + 1, streak + 1, expected_date - 1)
         ELSE IF workout_date = expected_date + 1
         THEN StreakWalk(uw, i + 1, streak, expected_date)
         ELSE IF workout_date > expected_date
         THEN StreakWalk(uw, i + 1, streak, expected_date)
         ELSE streak

\* the streak counted back from the latest record instead of from today
calculate_streak_from_latest(user_id, ws) ==
    LET sorted == SortDesc(UserWorkouts(user_id, ws)) IN
    IF sorted = <<>> THEN 0
    ELSE StreakWalk(sorted, 1, 0, fromisoformat(sorted[1].date))

calculate_streak(user_id, ws) ==
    LET user_workouts == UserWorkouts(user_id, ws) IN
    IF user_workouts = <<>> THEN 0
    ELSE StreakWalk(SortDesc(user_workouts), 1, 0, today)

-----------------------------------------------------------------------------
(* Requests and responses. *)

Req(op, sid, date, name, pin) ==
    [date |-> date, name |-> name, op |-> op, pin |-> pin, sid |-> sid]

\* raise HTTPException(status_code, detail)
HTTPException(status, detail) == [detail |-> detail, status |-> status]

MarkWorkoutResponse(success, message, streak, total) ==
    [message |-> message, status |-> 200, streak |-> streak,
     success |-> success, total_days |-> total]

\* what a handler leaves behind: its response and the stores after it
Outcome(resp, us, ws, ss, n) ==
    [issued |-> n, resp |-> resp, sessions |-> ss, users |-> us, workouts |-> ws]

Rejected(status, detail) ==
    Outcome(HTTPException(status, detail), users, workouts, sessions, issued)

\* not session_id or session_id not in sessions
NotAuthenticated(sid) == sid = NoToken \/ sid \notin DOMAIN sessions

\* sessions[session_id] = {'user_id': ..., 'name': ...} under a fresh token
WithSession(ss, token, user_id, name) ==
    [t \in DOMAIN ss \cup {token} |->
        IF t = token THEN [name |-> name, user_id |-> user_id] ELSE ss[t]]

-----------------------------------------------------------------------------
(* Ledger mutator: mark_workout and unmark_workout. *)

\* the duplicate check dropped
NeverMarked(user_id, s, ws) == FALSE

\* the duplicate check looking at the latest record of the file only
LatestIsMarked(user_id, s, ws) ==
    /\ ws # <<>>
    /\ ws[Len(ws)].user_id = user_id
    /\ ws[Len(ws)].date = s
    /\ ws[Len(ws)].workout_done

\* any(w['user_id'] == user_id and w['date'] == s and w['workout_done'])
AlreadyMarked(user_id, s, ws) ==
    \E i \in 1..Len(ws) :
        ws[i].user_id = user_id /\ ws[i].date = s /\ ws[i].workout_done

\* the save writing the new record alone, as after a load that came back empty
SaveOnlyNewWorkout(ws, user_id, target_date_str) ==
    <<Workout(user_id, target_date_str, TRUE)>>

\* workouts.append(new_workout); save_workouts(workouts)
AppendWorkout(ws, user_id, target_date_str) ==
    Append(ws, Workout(user_id, target_date_str, TRUE))

\* the date a mark request names: req.date parsed, or today without one
TargetDate(date) == IF date = NoDate THEN today ELSE fromisoformat(date)

\* the future check letting tomorrow through
IsFutureOffByOne(target_date) == target_date > today + 1

\* target_date > today
IsFuture(target_date) == target_date > today

\* the statistics of an applied mark computed before the append
mark_workout_stale_stats(sid, date) ==
    IF NotAuthenticated(sid) THEN Rejected(401, "Not authenticated")
    ELSE IF date # NoDate /\ ~ParsesAsIso(date)
    THEN Rejected(400, "Invalid date format")
    ELSE
      LET user_id == sessions[sid].user_id
          ws == read_workouts
          target_date == TargetDate(date)
          target_date_str == isoformat(target_date)
      IN  IF IsFuture(target_date)
          THEN Rejected(400, "Cannot mark workouts for future dates")
          ELSE IF AlreadyMarked(user_id, target_date_str, ws)
          THEN Outcome(MarkWorkoutResponse(FALSE, "already marked",
                           calculate_streak(user_id, ws), total_days(user_id, ws)),
                       users, workouts, sessions, issued)
          ELSE LET saved == AppendWorkout(ws, user_id, target_date_str) IN
               Outcome(MarkWorkoutResponse(TRUE, "marked",
                           calculate_streak(user_id, ws),
                           total_days(user_id, ws)),
                       users, saved, sessions, issued)

mark_workout_outcome(sid, date) ==
    IF NotAuthenticated(sid) THEN Rejected(401, "Not authenticated")
    ELSE IF date # NoDate /\ ~ParsesAsIso(date)
    THEN Rejected(400, "Invalid date format")
    ELSE
      LET user_id == sessions[sid].user_id
          ws == read_workouts
          target_date == TargetDate(date)
          target_date_str == isoformat(target_date)
      IN  IF IsFuture(target_date)
          THEN Rejected(400, "Cannot mark workouts for future dates")
          ELSE IF AlreadyMarked(user_id, target_date_str, ws)
          THEN Outcome(MarkWorkoutResponse(FALSE, "already marked",
                           calculate_streak(user_id, ws), total_days(user_id, ws)),
                       users, workouts, sessions, issued)
          ELSE LET saved == AppendWorkout(ws, user_id, target_date_str) IN
               Outcome(MarkWorkoutResponse(TRUE, "marked",
                           calculate_streak(user_id, saved),
                           total_days(user_id, saved)),
                       users, saved, sessions, issued)

\* the filter dropping every record of the date, whoever its user
WithoutDate(ws, user_id, date) ==
    SelectSeq(ws, LAMBDA w : ~(w.date = date))

\* the filter dropping every record of the user, whatever its date
WithoutUser(ws, user_id, date) ==
    SelectSeq(ws, LAMBDA w : ~(w.user_id = user_id))

\* [w for w in workouts if not (w['user_id'] == user_id and w['date'] == req.date)]
WithoutWorkout(ws, user_id, date) ==
    SelectSeq(ws, LAMBDA w : ~(w.user_id = user_id /\ w.date = date))

\* the "nothing removed" return dropped: every unmark saves and reports success
unmark_workout_always_applied(sid, date) ==
    IF NotAuthenticated(sid) THEN Rejected(401, "Not authenticated")
    ELSE IF date = NoDate THEN Rejected(400, "Date is required to unmark")
    ELSE
      LET user_id == sessions[sid].user_id
          ws == read_workouts
          kept == WithoutWorkout(ws, user_id, date)
      IN  Outcome(MarkWorkoutResponse(TRUE, "removed",
                      calculate_streak(user_id, kept),
                      total_days(user_id, kept)),
                  users, kept, sessions, issued)

unmark_workout_outcome(sid, date) ==
    IF NotAuthenticated(sid) THEN Rejected(401, "Not authenticated")
    ELSE IF date = NoDate THEN Rejected(400, "Date is required to unmark")
    ELSE
      LET user_id == sessions[sid].user_id
          ws == read_workouts
          kept == WithoutWorkout(ws, user_id, date)
      IN  IF Len(kept) = Len(ws)
          THEN Outcome(MarkWorkoutResponse(FALSE, "not found",
                           calculate_streak(user_id, kept),
                           total_days(user_id, kept)),
                       users, workouts, sessions, issued)
          ELSE Outcome(MarkWorkoutResponse(TRUE, "removed",
                           calculate_streak(user_id, kept),
                           total_days(user_id, kept)),
                       users, kept, sessions, issued)

-----------------------------------------------------------------------------
(* Registration and sessions: register, login, logout. *)

\* created_at, a timestamp no handler ever reads, is left out
User(user_id, name, pin) == [name |-> name, pin |-> pin, user_id |-> user_id]

\* str.isdigit(): the text is not empty and every character has the Unicode
\* digit property
isdigit(text) ==
    /\ text # <<>>
    /\ \A i \in 1..Len(text) : text[i] \in AsciiDigits \cup OtherDigits

RECURSIVE MaxUserId(_)
MaxUserId(us) ==
    IF us = <<>> THEN 0
    ELSE LET m == MaxUserId(Tail(us)) IN
         IF Head(us).user_id > m THEN Head(us).user_id ELSE m

\* the id given when the users file reads as empty
RestartedUserId(us) == 1

\* 1 if not users else max(u['user_id'] for u in users) + 1
NewUserId(us) == IF us = <<>> THEN 1 ELSE MaxUserId(us) + 1

\* registration without the "User already exists" check
register_without_name_check(name, pin) ==
    LET us == read_users IN
    IF Len(pin) # 4 \/ ~isdigit(pin)
    THEN Rejected(400, "PIN must be exactly 4 digits")
    ELSE LET new_user_id == NewUserId(us)
             session_id == issued + 1
         IN  Outcome([cookie |-> session_id, name |-> name, status |-> 200,
                      success |-> TRUE],
                     Append(us, User(new_user_id, name, pin)),
                     workouts,
                     WithSession(sessions, session_id, new_user_id, name),
                     issued + 1)

\* registration checking the length of the pin only
register_any_four_characters(name, pin) ==
    LET us == read_users IN
    IF \E i \in 1..Len(us) : us[i].name = name
    THEN Rejected(400, "User already exists")
    ELSE IF Len(pin) # 4
    THEN Rejected(400, "PIN must be exactly 4 digits")
    ELSE LET new_user_id == NewUserId(us)
             session_id == issued + 1
         IN  Outcome([cookie |-> session_id, name |-> name, status |-> 200,
                      success |-> TRUE],
                     Append(us, User(new_user_id, name, pin)),
                     workouts,
                     WithSession(sessions, session_id, new_user_id, name),
                     issued + 1)

register_outcome(name, pin) ==
    LET us == read_users IN
    IF \E i \in 1..Len(us) : us[i].name = name
    THEN Rejected(400, "User already exists")
    ELSE IF Len(pin) # 4 \/ ~isdigit(pin)
    THEN Rejected(400, "PIN must be exactly 4 digits")
    ELSE LET new_user_id == NewUserId(us)
             session_id == issued + 1
         IN  Outcome([cookie |-> session_id, name |-> name, status |-> 200,
                      success |-> TRUE],
                     Append(us, User(new_user_id, name, pin)),
                     workouts,
                     WithSession(sessions, session_id, new_user_id, name),
                     issued + 1)

\* the user looked up by name alone
FindUserByName(us, name, pin) ==
    LET hits == SelectSeq(us, LAMBDA u : u.name = name) IN
    IF hits = <<>> THEN <<>> ELSE <<Head(hits)>>

\* next((u for u in users if u['name'] == name and str(u['pin']) == pin), None)
FindUser(us, name, pin) ==
    LET hits == SelectSeq(us, LAMBDA u : u.name = name /\ u.pin = pin) IN
    IF hits = <<>> THEN <<>> ELSE <<Head(hits)>>

login_outcome(name, pin) ==
    LET found == FindUser(read_users, name, pin) IN
    IF found = <<>> THEN Rejected(401, "Invalid name or PIN")
    ELSE LET user == found[1]
             session_id == issued + 1
         IN  Outcome([cookie |-> session_id, name |-> user.name, status |-> 200,
                      success |-> TRUE],
                     users, workouts,
                     WithSession(sessions, session_id, user.user_id, user.name),
                     issued + 1)

\* the whole registry emptied, as sessions.clear() does
logout_everyone(sid) ==
    Outcome([status |-> 200, success |-> TRUE],
            users, workouts,
            IF sid # NoToken /\ sid \in DOMAIN sessions THEN <<>> ELSE sessions,
            issued)

\* if session_id and session_id in sessions: del sessions[session_id]
logout_outcome(sid) ==
    Outcome([status |-> 200, success |-> TRUE],
            users, workouts,
            IF sid # NoToken /\ sid \in DOMAIN sessions
            THEN [t \in DOMAIN sessions \ {sid} |-> sessions[t]]
            ELSE sessions,
            issued)

-----------------------------------------------------------------------------
(* Read paths: get_dashboard and get_leaderboard. *)

DashboardResponse(name, today_str, streak, total, last_date, marked, history) ==
    [current_streak |-> streak, last_workout_date |-> last_date, name |-> name,
     status |-> 200, today_date |-> today_str, today_marked |-> marked,
     total_workout_days |-> total, workout_history |-> history]

get_dashboard_outcome(sid) ==
    IF NotAuthenticated(sid) THEN Rejected(401, "Not authenticated")
    ELSE
      LET user_id == sessions[sid].user_id
          name == sessions[sid].name
          ws == read_workouts
          user_workouts == SortDesc(UserWorkouts(user_id, ws))
          today_str == isoformat(today)
          today_marked == \E i \in 1..Len(user_workouts) :
                              user_workouts[i].date = today_str
          last_workout_date ==
              IF user_workouts = <<>> THEN NoDate ELSE user_workouts[1].date
          workout_history ==
              [i \in 1..Len(user_workouts) |->
                  [date |-> user_workouts[i].date, status |-> "Completed"]]
      IN  Outcome(DashboardResponse(name, today_str, calculate_streak(user_id, ws),
                      Len(user_workouts), last_workout_date, today_marked,
                      workout_history),
                  users, workouts, sessions, issued)

\* one row of the leaderboard before the ranks are added
LeaderboardRow(user, ws, current_user_id) ==
    [current_streak |-> calculate_streak(user.user_id, ws),
     is_current_user |-> (user.user_id = current_user_id),
     name |-> user.name,
     total_workout_days |-> total_days(user.user_id, ws),
     user_id |-> user.user_id]

\* every user gets a row, whatever their statistics
IncludedAlways(row) == TRUE

\* if current_streak > 0 or total_workout_days > 0
Included(row) == row.current_streak > 0 \/ row.total_workout_days > 0

\* the for loop over users: the rows of the included users, in file order
RECURSIVE LeaderboardRows(_, _, _)
LeaderboardRows(us, ws, current_user_id) ==
    IF us = <<>> THEN <<>>
    ELSE LET rest == LeaderboardRows(SubSeq(us, 1, Len(us) - 1), ws,
                                     current_user_id)
             row == LeaderboardRow(us[Len(us)], ws, current_user_id)
         IN  IF Included(row) THEN Append(rest, row) ELSE rest

\* the tuple order of the sort key (current_streak, total_workout_days)
KeyLess(a, b) ==
    \/ a.current_streak < b.current_streak
    \/ /\ a.current_streak = b.current_streak
       /\ a.total_workout_days < b.total_workout_days

\* a descending sort that is not stable: a row goes in front of the rows
\* with its key
RECURSIVE InsertRowBeforeTies(_, _)
InsertRowBeforeTies(sorted, row) ==
    IF sorted = <<>> THEN <<row>>
    ELSE IF ~KeyLess(row, Head(sorted))
         THEN <<row>> \o sorted
         ELSE <<Head(sorted)>> \o InsertRowBeforeTies(Tail(sorted), row)

\* leaderboard.sort(key=..., reverse=True): stable, descending; a row goes
\* after every row whose key is not smaller
RECURSIVE InsertRow(_, _)
InsertRow(sorted, row) ==
    IF sorted = <<>> THEN <<row>>
    ELSE IF KeyLess(Head(sorted), row)
         THEN <<row>> \o sorted
         ELSE <<Head(sorted)>> \o InsertRow(Tail(sorted), row)

\* the sort left out: the rows in the order of users.json
RowsInFileOrder(rows) == rows

RECURSIVE SortRows(_)
SortRows(rows) ==
    IF rows = <<>> THEN <<>>
    ELSE InsertRow(SortRows(SubSeq(rows, 1, Len(rows) - 1)), rows[Len(rows)])

\* entry['rank'] = idx; del entry['user_id']
Ranked(rows) ==
    [idx \in 1..Len(rows) |->
        [current_streak |-> rows[idx].current_streak,
         is_current_user |-> rows[idx].is_current_user,
         name |-> rows[idx].name,
         rank |-> idx,
         total_workout_days |-> rows[idx].total_workout_days]]

\* the ranking served without a session, nobody being the current user
get_leaderboard_public(sid) ==
    LET current_user_id == IF NotAuthenticated(sid) THEN NoUser
                           ELSE sessions[sid].user_id
        leaderboard == LeaderboardRows(read_users, read_workouts, current_user_id)
    IN  Outcome([board |-> Ranked(SortRows(leaderboard)), status |-> 200],
                users, workouts, sessions, issued)

get_leaderboard_outcome(sid) ==
    IF NotAuthenticated(sid) THEN Rejected(401, "Not authenticated")
    ELSE
      LET current_user_id == sessions[sid].user_id
          leaderboard == LeaderboardRows(read_users, read_workouts, current_user_id)
      IN  Outcome([board |-> Ranked(SortRows(leaderboard)), status |-> 200],
                  users, workouts, sessions, issued)

\* whether the handler of a request gets as far as a read_users() or a
\* read_workouts(): after the session check, and in unmark after the test
\* for a date
Reads(req) ==
    CASE req.op \in {"register", "login"} -> TRUE
      [] req.op \in {"mark", "dashboard", "leaderboard"} -> ~NotAuthenticated(req.sid)
      [] req.op = "unmark" -> ~NotAuthenticated(req.sid) /\ req.date # NoDate
      [] OTHER -> FALSE

\* whether one of the loads the handler makes lets an exception out
Raises(req) ==
    /\ Reads(req)
    /\ \/ req.op \in {"register", "login", "leaderboard"} /\ LoadRaises(files.users)
       \/ req.op \in {"mark", "unmark", "dashboard", "leaderboard"}
             /\ LoadRaises(files.workouts)

\* the handler a request is routed to; an exception that is no
\* HTTPException is answered by the framework with status 500
Handler(req) ==
    IF Raises(req) THEN Rejected(500, "Internal Server Error")
    ELSE CASE req.op = "mark" -> mark_workout_outcome(req.sid, req.date)
           [] req.op = "unmark" -> unmark_workout_outcome(req.sid, req.date)
           [] req.op = "register" -> register_outcome(req.name, req.pin)
           [] req.op = "login" -> login_outcome(req.name, req.pin)
           [] req.op = "logout" -> logout_outcome(req.sid)
           [] req.op = "dashboard" -> get_dashboard_outcome(req.sid)
           [] req.op = "leaderboard" -> get_leaderboard_outcome(req.sid)

-----------------------------------------------------------------------------
(* History variables: what the claims about sequences of requests read. *)

NoReq == Req("none", NoToken, NoDate, "", NoPin)
NoLast == [existed |-> FALSE, req |-> NoReq, resp |-> [status |-> 0],
           uid |-> NoUser]
NoTrip == [applied |-> FALSE, date |-> NoDate, snap |-> <<>>, stage |-> 0,
           uid |-> NoUser]
NoBefore == [files |-> Intact, sessions |-> <<>>, users |-> <<>>,
             workouts |-> <<>>]
NoProbe == [streak |-> 0, user_id |-> NoUser]

\* the user a request acts for: sessions[session_id]['user_id']
Caller(req) ==
    IF req.op \in {"mark", "unmark", "dashboard", "leaderboard"}
       /\ ~NotAuthenticated(req.sid)
    THEN sessions[req.sid].user_id ELSE NoUser

\* whether the caller already has a record for the day the request names
Existed(req) ==
    /\ req.op \in {"mark", "unmark"}
    /\ Caller(req) # NoUser
    /\ req.date = NoDate \/ ParsesAsIso(req.date)
    /\ \E i \in 1..Len(workouts) :
          /\ workouts[i].user_id = Caller(req)
          /\ workouts[i].date = isoformat(TargetDate(req.date))

Applied(resp) == resp.status = 200 /\ resp.success

NextTrip(req, o) ==
    IF ~(req.op \in {"mark", "unmark"} /\ o.resp.status = 200) THEN NoTrip
    ELSE IF req.op = "mark"
    THEN IF trip.stage = 2 /\ trip.uid = Caller(req) /\ trip.date = req.date
         THEN [trip EXCEPT !.stage = 3]
         ELSE [applied |-> o.resp.success, date |-> req.date,
               snap |-> o.workouts, stage |-> 1, uid |-> Caller(req)]
    ELSE IF trip.stage = 1 /\ trip.uid = Caller(req) /\ trip.date = req.date
         THEN [trip EXCEPT !.stage = 2]
         ELSE NoTrip

Observe(req, o) ==
    /\ last' = [existed |-> Existed(req), req |-> req, resp |-> o.resp,
                uid |-> Caller(req)]
    /\ before' = [files |-> files, sessions |-> sessions, users |-> users,
                  workouts |-> workouts]
    /\ repeatOf' = IF req.op = "mark" /\ last.req = req /\ last.resp.status = 200
                   THEN last ELSE NoLast
    /\ trip' = NextTrip(req, o)

-----------------------------------------------------------------------------
(* The server handling one request at a time. *)

Init ==
    /\ users = <<>>
    /\ workouts = <<>>
    /\ sessions = <<>>
    /\ issued = 0
    /\ today = FirstDay
    /\ pending = {}
    /\ finished = {}
    /\ last = NoLast
    /\ before = NoBefore
    /\ repeatOf = NoLast
    /\ trip = NoTrip
    /\ probe = NoProbe
    /\ files = Intact

\* the stores after a handler has run to its end with outcome o
Run(o) ==
    /\ users' = o.users
    /\ workouts' = o.workouts
    /\ sessions' = o.sessions
    /\ issued' = o.issued

\* the caps that keep the model finite
WithinBounds(o, cap) == Len(o.workouts) <= cap /\ o.issued <= MaxTokens

hist == <<last, before, repeatOf, trip>>

\* a request arrives and its handler runs to the end
Serve(req) ==
    \E o \in {Handler(req)} :
        /\ WithinBounds(o, MaxRecords)
        /\ Run(o)
        /\ UNCHANGED <<today, pending, finished, probe, hist, files>>

register(name, pin) == Serve(Req("register", NoToken, NoDate, name, pin))
login(name, pin) == Serve(Req("login", NoToken, NoDate, name, pin))
logout(sid) == Serve(Req("logout", sid, NoDate, "", NoPin))
mark_workout(sid, date) == Serve(Req("mark", sid, date, "", NoPin))
unmark_workout(sid, date) == Serve(Req("unmark", sid, date, "", NoPin))

\* midnight passes: datetime.now().date() moves to the next day
Tick ==
    /\ today < MaxDay
    /\ today' = today + 1
    /\ last' = NoLast
    /\ repeatOf' = NoLast
    /\ trip' = NoTrip
    /\ UNCHANGED <<users, workouts, sessions, issued, pending, finished,
                   before, probe, files>>

Next ==
    \/ \E name \in Names, pin \in PinInputs : register(name, pin)
    \/ \E name \in Names, pin \in PinInputs : login(name, pin)
    \/ \E sid \in TokenInputs : logout(sid)
    \/ \E sid \in TokenInputs : \E date \in DateInputsFor(sid) : mark_workout(sid, date)
    \/ \E sid \in TokenInputs : \E date \in DateInputsFor(sid) : unmark_workout(sid, date)
    \/ Tick

Spec == Init /\ [][Next]_vars

-----------------------------------------------------------------------------
(* The same server with the history of its ledger requests recorded. *)

Traced(req, cap) ==
    \E o \in {Handler(req)} :
        /\ WithinBounds(o, cap)
        /\ Run(o)
        /\ Observe(req, o)
        /\ UNCHANGED <<today, pending, finished, probe, files>>

TracedRegister(name, pin) ==
    Traced(Req("register", NoToken, NoDate, name, pin), MaxTracedRecords)
TracedMark(sid, date) ==
    Traced(Req("mark", sid, date, "", NoPin), MaxTracedRecords)
TracedUnmark(sid, date) ==
    Traced(Req("unmark", sid, date, "", NoPin), MaxTracedRecords)

\* without login every token belongs to a registration: one per name
TracedTokens == 0..Cardinality(Names)

NextTraced ==
    \/ \E name \in Names, pin \in PinInputs : TracedRegister(name, pin)
    \/ \E sid \in TracedTokens : \E date \in DateInputsFor(sid) : TracedMark(sid, date)
    \/ \E sid \in TracedTokens : \E date \in DateInputsFor(sid) : TracedUnmark(sid, date)
    \/ Tick

SpecTraced == Init /\ [][NextTraced]_vars

-----------------------------------------------------------------------------
(* The same with a single user, ann, who can fill every day with a record. *)

SoloRegister(pin) ==
    Traced(Req("register", NoToken, NoDate, "ann", pin), MaxSoloRecords)
SoloMark(sid, date) == Traced(Req("mark", sid, date, "", NoPin), MaxSoloRecords)
SoloUnmark(sid, date) == Traced(Req("unmark", sid, date, "", NoPin), MaxSoloRecords)

SoloTokens == 0..1

NextSolo ==
    \/ \E pin \in PinInputs : SoloRegister(pin)
    \/ \E sid \in SoloTokens : \E date \in DateInputsFor(sid) : SoloMark(sid, date)
    \/ \E sid \in SoloTokens : \E date \in DateInputsFor(sid) : SoloUnmark(sid, date)
    \/ Tick

SpecSolo == Init /\ [][NextSolo]_vars
-----------------------------------------------------------------------------
(* calculate_streak on its own: any list of records, any day. *)

StreakUsers == {1, 2}

\* the records a list is drawn from: user 1 on every day up to tomorrow, and
\* on the last two days also user 1 not done and user 2
StreakRecords ==
    {Workout(1, isoformat(d), TRUE) : d \in 0..(MaxDay + 1)}
    \cup {Workout(1, isoformat(d), FALSE) : d \in (MaxDay - 1)..MaxDay}
    \cup {Workout(2, isoformat(d), TRUE) : d \in (MaxDay - 1)..MaxDay}

RECURSIVE ListsUpTo(_, _)
ListsUpTo(S, n) ==
    IF n = 0 THEN {<<>>}
    ELSE LET shorter == ListsUpTo(S, n - 1) IN
         shorter \cup {Append(l, x) : l \in shorter, x \in S}

InitStreak ==
    /\ users = <<>>
    /\ workouts \in ListsUpTo(StreakRecords, MaxStreakLen)
    /\ sessions = <<>>
    /\ issued = 0
    /\ today \in FirstDay..MaxDay
    /\ pending = {}
    /\ finished = {}
    /\ last = NoLast
    /\ before = NoBefore
    /\ repeatOf = NoLast
    /\ trip = NoTrip
    /\ probe = NoProbe
    /\ files = Intact

StreakProbe(user_id) ==
    /\ probe' = [streak |-> calculate_streak(user_id, workouts), user_id |-> user_id]
    /\ UNCHANGED <<users, workouts, sessions, issued, today, pending, finished, hist, files>>

NextStreak == \E user_id \in StreakUsers : StreakProbe(user_id)

SpecStreak == InitStreak /\ [][NextStreak]_vars

-----------------------------------------------------------------------------
(* Claims about the streak engine. *)

\* user u has a done record dated day d in the current collection
HasDone(u, d) ==
    \E i \in 1..Len(workouts) :
        /\ workouts[i].user_id = u
        /\ workouts[i].workout_done
        /\ fromisoformat(workouts[i].date) = d

\* the days on which u has a done record
DoneDays(u) ==
    {fromisoformat(workouts[i].date) :
        i \in {j \in 1..Len(workouts) :
                  workouts[j].user_id = u /\ workouts[j].workout_done}}

\* the length of the maximal run of consecutive done days of u ending at d
RunEndingAt(u, d) ==
    CHOOSE k \in 0..(Len(workouts) + 1) :
        /\ \A j \in 0..(k - 1) : HasDone(u, d - j)
        /\ ~HasDone(u, d - k)

Probed == probe.user_id # NoUser

\* C6: a user whose only done record is dated yesterday, with nothing on
\* today, has streak 1.
C6_YesterdayOnlyIsOne ==
    (Probed /\ DoneDays(probe.user_id) = {today - 1}) => probe.streak = 1

\* C7: when the user has a done record dated today, the streak is the length
\* of the maximal run of consecutive done days ending today.
C7_StreakIsRunEndingToday ==
    (Probed /\ HasDone(probe.user_id, today))
        => probe.streak = RunEndingAt(probe.user_id, today)

\* a run of three days ending today next to a record dated tomorrow
C7_Witness ==
    /\ Probed
    /\ DoneDays(probe.user_id) = {today - 2, today - 1, today, today + 1}
    /\ probe.streak = 3

\* C8: when the user has no done record dated today or yesterday, the streak
\* is 0, whether the user has no record at all or only older ones.
C8_NoRecentRecordIsZero ==
    (Probed /\ ~HasDone(probe.user_id, today) /\ ~HasDone(probe.user_id, today - 1))
        => probe.streak = 0

\* the user's only record is two days old, and another user has one today
C8_Witness ==
    /\ Probed
    /\ DoneDays(probe.user_id) = {today - 2}
    /\ \E u \in StreakUsers \ {probe.user_id} : HasDone(u, today)
    /\ probe.streak = 0

-----------------------------------------------------------------------------
(* Requests in flight.  A request is received (Submit) and waits in pending *)
(* until the event loop runs its handler (Handle); the handler body has no  *)
(* await, so it runs from its load to its save in one step.  The behaviour  *)
(* starts after ann has registered.                                         *)

ValidPin == <<"1", "2", "3", "4">>

InitConc ==
    /\ users = <<User(1, "ann", ValidPin)>>
    /\ workouts = <<>>
    /\ sessions = WithSession(<<>>, 1, 1, "ann")
    /\ issued = 1
    /\ today = FirstDay
    /\ pending = {}
    /\ finished = {}
    /\ last = NoLast
    /\ before = NoBefore
    /\ repeatOf = NoLast
    /\ trip = NoTrip
    /\ probe = NoProbe
    /\ files = Intact

ConcDates == {isoformat(today - 1), isoformat(today)}

ConcRequests ==
    {Req("register", NoToken, NoDate, name, ValidPin) : name \in Names}
    \cup {Req(op, sid, date, "", NoPin) :
            op \in {"mark", "unmark"}, sid \in 1..2, date \in ConcDates}

Submitted == Cardinality(pending) + Cardinality(finished)

Submit(req) ==
    /\ Cardinality(pending) < MaxPending
    /\ Submitted < MaxRequests
    /\ pending' = pending \cup {[id |-> Submitted + 1, req |-> req]}
    /\ UNCHANGED <<users, workouts, sessions, issued, today, finished, probe, hist, files>>

\* the user a finished request acted for, or the user it registered
Subject(req, o) ==
    IF req.op = "register" /\ o.resp.status = 200 THEN NewUserId(users)
    ELSE Caller(req)

Handle(p) ==
    \E o \in {Handler(p.req)} :
        /\ Run(o)
        /\ pending' = pending \ {p}
        /\ finished' = finished \cup
               {[id |-> p.id, req |-> p.req, resp |-> o.resp,
                 uid |-> Subject(p.req, o),
                 with |-> {q.id : q \in pending \ {p}}]}
        /\ UNCHANGED <<today, probe, hist, files>>

NextConc ==
    \/ \E req \in ConcRequests : Submit(req)
    \/ \E p \in pending : Handle(p)

SpecConc == InitConc /\ [][NextConc]_vars

-----------------------------------------------------------------------------
(* Claims about the ledger. *)

\* C1: after any sequence of register, login, logout, mark and unmark the
\* collection holds at most one record per (user_id, date) pair.
C1_OneRecordPerUserAndDate ==
    \A i, j \in 1..Len(workouts) :
        (workouts[i].user_id = workouts[j].user_id
            /\ workouts[i].date = workouts[j].date) => i = j

\* a full collection in which one user has two days and one day has two users
C1_Witness ==
    /\ Len(workouts) >= 3
    /\ \E i, j \in 1..Len(workouts) :
          i # j /\ workouts[i].user_id = workouts[j].user_id
    /\ \E i, j \in 1..Len(workouts) :
          i # j /\ workouts[i].date = workouts[j].date

\* two finished requests one of which was in flight when the other ran
Concurrent(f, g) == f.id \in g.with \/ g.id \in f.with

Mutated(f) == f.resp.status = 200 /\ f.resp.success

\* a finished request of the opposite kind on the same user and date
Reversed(f) ==
    \E g \in finished :
        /\ Mutated(g)
        /\ g.uid = f.uid
        /\ g.req.date = f.req.date
        /\ g.req.op = (IF f.req.op = "mark" THEN "unmark" ELSE "mark")

HasRecord(uid, date) ==
    \E i \in 1..Len(workouts) :
        workouts[i].user_id = uid /\ workouts[i].date = date

\* the store shows the update of the finished request f
Kept(f) ==
    CASE f.req.op = "register" ->
            \E i \in 1..Len(users) :
                users[i].user_id = f.uid /\ users[i].name = f.req.name
      [] f.req.op = "mark" -> Reversed(f) \/ HasRecord(f.uid, f.req.date)
      [] f.req.op = "unmark" -> Reversed(f) \/ ~HasRecord(f.uid, f.req.date)

\* C2: the updates of two mutating requests that were in flight together are
\* both in the store once both have completed.
C2_NoLostUpdate ==
    \A f, g \in finished :
        (f # g /\ Concurrent(f, g) /\ Mutated(f) /\ Mutated(g))
            => Kept(f) /\ Kept(g)

\* two marks by different users, in flight together, both applied
C2_Witness ==
    /\ pending = {}
    /\ \E f, g \in finished :
          /\ Concurrent(f, g)
          /\ f.req.op = "mark" /\ g.req.op = "mark"
          /\ Mutated(f) /\ Mutated(g)
          /\ f.uid # g.uid
          /\ HasRecord(f.uid, f.req.date) /\ HasRecord(g.uid, g.req.date)

\* the last request was a mark or an unmark answered with statistics
Answered(op) == last.req.op = op /\ last.resp.status = 200

\* the number of done records of user u in the persisted collection
StoredTotal(u) ==
    Cardinality({i \in 1..Len(workouts) :
                    workouts[i].user_id = u /\ workouts[i].workout_done})

\* C3: a mark of a date not after today for which the user has no record,
\* repeated at once, is applied the first time and answered "already marked"
\* the second time, which leaves the store as it was; both responses carry
\* the same streak and the same total.
C3_MarkIdempotent ==
    (/\ repeatOf.req.op = "mark"
     /\ repeatOf.uid # NoUser
     /\ repeatOf.req.date = NoDate \/ ParsesAsIso(repeatOf.req.date)
     /\ TargetDate(repeatOf.req.date) <= today
     /\ ~repeatOf.existed)
    => /\ repeatOf.resp.status = 200 /\ repeatOf.resp.success
       /\ last.resp.status = 200 /\ ~last.resp.success
       /\ last.resp.message = "already marked"
       /\ workouts = before.workouts
       /\ last.resp.streak = repeatOf.resp.streak
       /\ last.resp.total_days = repeatOf.resp.total_days

\* the repeated mark of a new day, next to records of both users
C3_Witness ==
    /\ repeatOf.req.op = "mark"
    /\ ~repeatOf.existed
    /\ repeatOf.resp.success
    /\ ~last.resp.success
    /\ last.resp.streak = 1
    /\ \E i \in 1..Len(workouts) : workouts[i].user_id # last.uid

\* C4 as stated: after mark, unmark, mark of the same user and date the
\* collection is identical to the one right after the first mark.
C4_RoundTripIdentical == trip.stage = 3 => workouts = trip.snap

\* two record lists holding the same records, in whatever order
SameRecords(a, b) ==
    /\ Len(a) = Len(b)
    /\ \A r \in {a[i] : i \in 1..Len(a)} \cup {b[i] : i \in 1..Len(b)} :
          Cardinality({i \in 1..Len(a) : a[i] = r})
              = Cardinality({i \in 1..Len(b) : b[i] = r})

\* C4 amended: after mark, unmark, mark of the same user and date the
\* collection holds the same records as right after the first mark, and is
\* the identical list whenever the first mark was applied.
C4_RoundTripSameRecords ==
    trip.stage = 3
        => /\ SameRecords(workouts, trip.snap)
           /\ trip.applied => workouts = trip.snap

\* a completed round trip whose unmark removed the record from among others
C4_Witness ==
    /\ trip.stage = 3
    /\ trip.applied
    /\ last.resp.success
    /\ Len(workouts) >= 2
    /\ workouts = trip.snap

\* C5: a mark naming a day after today is rejected with the validation error
\* and changes nothing, so no record is ever dated after today.
C5_FutureMarkRejected ==
    /\ (/\ last.req.op = "mark"
         /\ last.uid # NoUser
         /\ ParsesAsIso(last.req.date)
         /\ fromisoformat(last.req.date) > today)
        => /\ last.resp = HTTPException(400, "Cannot mark workouts for future dates")
           /\ workouts = before.workouts
           /\ StoredTotal(last.uid) = total_days(last.uid, before.workouts)
    /\ \A i \in 1..Len(workouts) : fromisoformat(workouts[i].date) <= today

\* a rejected mark of tomorrow by a user who already has a record
C5_Witness ==
    /\ last.req.op = "mark"
    /\ last.uid # NoUser
    /\ ParsesAsIso(last.req.date)
    /\ fromisoformat(last.req.date) = today + 1
    /\ last.resp.status = 400
    /\ StoredTotal(last.uid) >= 1

\* C9: when an applied explicit-date mark completes a run of k consecutive
\* marked days ending today, with no other record of the user, its response
\* has streak = k and total = k.
C9_ConsecutiveMarks ==
    \A k \in 1..MaxSoloRecords :
        (/\ Answered("mark") /\ last.resp.success
         /\ last.req.date # NoDate
         /\ DoneDays(last.uid) = (today - k + 1)..today
         /\ StoredTotal(last.uid) = k)
        => last.resp.streak = k /\ last.resp.total_days = k

\* three days marked one after the other, oldest first, the last being today
C9_Witness ==
    /\ Answered("mark") /\ last.resp.success
    /\ last.req.date = isoformat(today)
    /\ workouts = <<Workout(last.uid, isoformat(today - 2), TRUE),
                    Workout(last.uid, isoformat(today - 1), TRUE),
                    Workout(last.uid, isoformat(today), TRUE)>>
    /\ last.resp.streak = 3 /\ last.resp.total_days = 3

\* C10: every mark and unmark response, applied or not, reports the user's
\* number of done records in the persisted collection as it stands after the
\* request and the streak computed on that collection.
C10_ResponseStatistics ==
    (Answered("mark") \/ Answered("unmark"))
        => /\ last.resp.total_days = StoredTotal(last.uid)
           /\ last.resp.streak = calculate_streak(last.uid, workouts)

\* an applied unmark that leaves the user no record, next to another user's
C10_Witness ==
    /\ Answered("unmark") /\ last.resp.success
    /\ last.resp.total_days = 0
    /\ Len(workouts) = 1

\* user u has a record, in the list ws, for the day the date text names
RecordOn(u, date, ws) ==
    /\ ParsesAsIso(date)
    /\ \E i \in 1..Len(ws) :
          ws[i].user_id = u /\ fromisoformat(ws[i].date) = fromisoformat(date)

\* C11: an unmark of a date for which the user has no record is answered
\* applied = false, "not found", with the streak and total of the collection
\* as it was, and the collection stays as it was.
C11_UnmarkMissingIsNoOp ==
    (/\ last.req.op = "unmark"
     /\ last.uid # NoUser
     /\ last.req.date # NoDate
     /\ ~RecordOn(last.uid, last.req.date, before.workouts))
    => /\ last.resp = MarkWorkoutResponse(FALSE, "not found",
                           calculate_streak(last.uid, before.workouts),
                           total_days(last.uid, before.workouts))
       /\ workouts = before.workouts

\* an unmark of yesterday by a user whose only record is dated today
C11_Witness ==
    /\ last.req.op = "unmark"
    /\ last.req.date = isoformat(today - 1)
    /\ ~last.resp.success
    /\ last.resp.message = "not found"
    /\ last.resp.streak = 1 /\ last.resp.total_days = 1
    /\ workouts = before.workouts
    /\ \E i \in 1..Len(workouts) : workouts[i].user_id # last.uid

-----------------------------------------------------------------------------
(* get_leaderboard on its own: up to three registered users, each with a    *)
(* session, any collection of their records up to today, any requester.    *)

BoardNames == <<"ann", "bob", "cat">>
BoardUserIds == 1..Len(BoardNames)

\* the records a collection is drawn from: every user on every day, and one
\* record of the last user that is not done
BoardRecords ==
    {Workout(u, isoformat(d), TRUE) : u \in BoardUserIds, d \in Days}
    \cup {Workout(Len(BoardNames), isoformat(FirstDay), FALSE)}

\* a collection as mark_workout builds it: one record per user and date, none
\* dated after today
LedgerShaped(ws, day) ==
    /\ \A i, j \in 1..Len(ws) :
          (ws[i].user_id = ws[j].user_id /\ ws[i].date = ws[j].date) => i = j
    /\ \A i \in 1..Len(ws) : fromisoformat(ws[i].date) <= day

InitBoard ==
    /\ \E n \in BoardUserIds :
          /\ users = [i \in 1..n |-> User(i, BoardNames[i], ValidPin)]
          /\ sessions = [t \in 1..n |-> [name |-> BoardNames[t], user_id |-> t]]
          /\ issued = n
    /\ today \in FirstDay..MaxDay
    /\ workouts \in {ws \in ListsUpTo(BoardRecords, MaxBoardLen) :
                        LedgerShaped(ws, today)}
    /\ pending = {}
    /\ finished = {}
    /\ last = NoLast
    /\ before = NoBefore
    /\ repeatOf = NoLast
    /\ trip = NoTrip
    /\ probe = NoProbe
    /\ files = Intact

get_leaderboard(sid) ==
    LET req == Req("leaderboard", sid, NoDate, "", NoPin) IN
    \E o \in {Handler(req)} :
        /\ Run(o)
        /\ Observe(req, o)
        /\ UNCHANGED <<today, pending, finished, probe, files>>

NextBoard == \E sid \in 0..Len(BoardNames) : get_leaderboard(sid)

SpecBoard == InitBoard /\ [][NextBoard]_vars

-----------------------------------------------------------------------------
(* Claims about the leaderboard. *)

\* the last request was a leaderboard request answered with a ranking
Ranking == last.req.op = "leaderboard" /\ last.resp.status = 200

\* the number of leaderboard entries carrying a name
OnBoard(name) ==
    Cardinality({k \in 1..Len(last.resp.board) : last.resp.board[k].name = name})

\* C12: a registered user has an entry on the leaderboard exactly when their
\* streak or their total is above 0, and then exactly one; a user without a
\* done record has none, and every entry belongs to a registered user.
C12_LeaderboardMembership ==
    Ranking =>
        /\ \A i \in 1..Len(users) :
              OnBoard(users[i].name) =
                  (IF \/ calculate_streak(users[i].user_id, workouts) > 0
                      \/ StoredTotal(users[i].user_id) > 0
                   THEN 1 ELSE 0)
        /\ \A i \in 1..Len(users) :
              StoredTotal(users[i].user_id) = 0 => OnBoard(users[i].name) = 0
        /\ \A k \in 1..Len(last.resp.board) :
              \E i \in 1..Len(users) : users[i].name = last.resp.board[k].name

\* three users, two on the leaderboard, the third holding only a record that
\* is not done
C12_Witness ==
    /\ Ranking
    /\ Len(users) = 3
    /\ Len(last.resp.board) = 2
    /\ \E i \in 1..Len(workouts) :
          workouts[i].user_id = 3 /\ ~workouts[i].workout_done
    /\ OnBoard("cat") = 0

\* C13: the leaderboard is in descending order of streak, then of total, and
\* the entry at position i has rank i.
C13_LeaderboardOrder ==
    Ranking =>
        /\ \A k \in 1..Len(last.resp.board) : last.resp.board[k].rank = k
        /\ \A k \in 1..(Len(last.resp.board) - 1) :
              LET hi == last.resp.board[k]
                  lo == last.resp.board[k + 1]
              IN  \/ hi.current_streak > lo.current_streak
                  \/ /\ hi.current_streak = lo.current_streak
                     /\ hi.total_workout_days >= lo.total_workout_days

\* three entries: the first two tie on both keys, the third has no streak,
\* and the file lists the users in another order
C13_Witness ==
    /\ Ranking
    /\ Len(last.resp.board) = 3
    /\ last.resp.board[1].current_streak = last.resp.board[2].current_streak
    /\ last.resp.board[1].total_workout_days = last.resp.board[2].total_workout_days
    /\ last.resp.board[3].current_streak = 0
    /\ last.resp.board[1].current_streak = 1
    /\ last.resp.board[3].name = users[1].name
    /\ last.resp.board[3].rank = 3

-----------------------------------------------------------------------------
(* Accounts and sessions: every handler, with each request, the stores it    *)
(* found and its response recorded.  A name is "ann" or the empty text; a    *)
(* pin is well formed, too short, too long, not numeric, empty, or made of   *)
(* digits that are not all ASCII.                                            *)

AuthNames == {"ann", ""}
OtherPin == <<"1", "2", "3", "U+0663">>
AuthPins ==
    {ValidPin, OtherPin, <<"1", "2", "3">>, <<"1", "2", "3", "4", "5">>,
     <<"1", "2", "a", "4">>, NoPin}
\* login checks nothing about the form of a pin: it is tried with the two
\* pins an account can have
LoginPins == {ValidPin, OtherPin}
AuthTokens == 0..MaxAuthTokens

\* the dates tried: none, and today's
AuthDatesFor(sid) ==
    IF NotAuthenticated(sid) THEN {NoDate} ELSE {NoDate, isoformat(today)}

AuthServe(req) ==
    \E o \in {Handler(req)} :
        /\ Len(o.workouts) <= MaxAuthRecords
        /\ o.issued <= MaxAuthTokens
        /\ Run(o)
        /\ last' = [existed |-> Existed(req), req |-> req, resp |-> o.resp,
                    uid |-> Caller(req)]
        /\ before' = [files |-> files, sessions |-> sessions, users |-> users,
                  workouts |-> workouts]
        /\ UNCHANGED <<today, pending, finished, probe, repeatOf, trip, files>>

AuthRegister(name, pin) == AuthServe(Req("register", NoToken, NoDate, name, pin))
AuthLogin(name, pin) == AuthServe(Req("login", NoToken, NoDate, name, pin))
AuthLogout(sid) == AuthServe(Req("logout", sid, NoDate, "", NoPin))
AuthMark(sid, date) == AuthServe(Req("mark", sid, date, "", NoPin))
AuthUnmark(sid, date) == AuthServe(Req("unmark", sid, date, "", NoPin))
AuthDashboard(sid) == AuthServe(Req("dashboard", sid, NoDate, "", NoPin))
AuthLeaderboard(sid) == AuthServe(Req("leaderboard", sid, NoDate, "", NoPin))

NextAuth ==
    \/ \E name \in AuthNames, pin \in AuthPins : AuthRegister(name, pin)
    \/ \E name \in AuthNames, pin \in LoginPins : AuthLogin(name, pin)
    \/ \E sid \in AuthTokens : AuthLogout(sid)
    \/ \E sid \in AuthTokens : \E date \in AuthDatesFor(sid) : AuthMark(sid, date)
    \/ \E sid \in AuthTokens : \E date \in AuthDatesFor(sid) : AuthUnmark(sid, date)
    \/ \E sid \in AuthTokens : AuthDashboard(sid)
    \/ \E sid \in AuthTokens : AuthLeaderboard(sid)

SpecAuth == Init /\ [][NextAuth]_vars

-----------------------------------------------------------------------------
(* Claims about accounts and sessions. *)

\* the last request came without a token or with one the registry did not hold
Unauthenticated ==
    last.req.sid = NoToken \/ last.req.sid \notin DOMAIN before.sessions

\* the last request left the two files and the session registry as they were
NothingChanged ==
    /\ users = before.users
    /\ workouts = before.workouts
    /\ sessions = before.sessions

\* C14: mark, unmark, dashboard and leaderboard without a token, or with a
\* token that is not in the session registry, are answered 401 and leave
\* users, workouts and sessions unchanged.
C14_UnauthenticatedRejected ==
    (/\ last.req.op \in {"mark", "unmark", "dashboard", "leaderboard"}
     /\ Unauthenticated)
    => /\ last.resp = HTTPException(401, "Not authenticated")
       /\ NothingChanged

\* a leaderboard request with a token that was never issued, while a user
\* with a record and a session exists
C14_Witness ==
    /\ last.req.op = "leaderboard"
    /\ last.req.sid # NoToken
    /\ last.req.sid \notin DOMAIN sessions
    /\ last.resp.status = 401
    /\ DOMAIN sessions # {}
    /\ Len(workouts) = 1

\* a logout removes its token and nothing else, and succeeds even without a
\* token it could remove; a request presenting a token the registry does not
\* hold is answered 401
LogoutRemovesOnlyItsToken ==
    /\ last.req.op = "logout" =>
          /\ last.resp.status = 200 /\ last.resp.success
          /\ sessions = [t \in DOMAIN before.sessions \ {last.req.sid} |->
                             before.sessions[t]]
          /\ users = before.users
          /\ workouts = before.workouts
    /\ (/\ last.req.op \in {"mark", "unmark", "dashboard", "leaderboard"}
        /\ last.req.sid \notin DOMAIN sessions)
       => last.resp.status = 401

\* a token that was generated and is no longer in the registry never returns
RemovedTokenStaysOut ==
    \A t \in 1..issued : t \notin DOMAIN sessions => t \notin DOMAIN sessions'

\* C15: logout removes exactly its token from the session registry, every
\* other session stays, a logout without a known token changes nothing and
\* still succeeds, and the removed token is refused from then on.
C15_LogoutRemovesToken ==
    []LogoutRemovesOnlyItsToken /\ [][RemovedTokenStaysOut]_vars

\* the only user logged out of one of two sessions: the dashboard is refused
\* to the removed token while the other session is still in the registry
C15_Witness ==
    /\ last.req.op = "dashboard"
    /\ last.req.sid \in 1..issued
    /\ last.req.sid \notin DOMAIN sessions
    /\ last.resp.status = 401
    /\ Len(users) = 1
    /\ Cardinality(DOMAIN sessions) = 1

\* the positions in the users file, as the login found it, of the users with
\* the name and the pin of the last request
Matching ==
    {i \in 1..Len(before.users) :
        /\ before.users[i].name = last.req.name
        /\ before.users[i].pin = last.req.pin}

\* C16: login succeeds exactly when a registered user has the name and the
\* pin given; a failed login is answered 401 and creates no session; a
\* successful one adds one session, bound to the id and name of that user.
C16_LoginMatchesNameAndPin ==
    last.req.op = "login" =>
        /\ last.resp.status = 200 <=> Matching # {}
        /\ users = before.users /\ workouts = before.workouts
        /\ Matching = {} =>
              /\ last.resp = HTTPException(401, "Invalid name or PIN")
              /\ sessions = before.sessions
        /\ Matching # {} =>
              /\ last.resp.cookie \notin DOMAIN before.sessions
              /\ DOMAIN sessions = DOMAIN before.sessions \cup {last.resp.cookie}
              /\ \A t \in DOMAIN before.sessions : sessions[t] = before.sessions[t]
              /\ \E i \in Matching :
                    /\ sessions[last.resp.cookie].user_id = before.users[i].user_id
                    /\ sessions[last.resp.cookie].name = before.users[i].name
                    /\ last.resp.name = before.users[i].name

\* a user who logged out logs in again with their name and pin and gets a
\* new session, the only one in the registry
C16_Witness ==
    /\ last.req.op = "login"
    /\ last.req.pin = OtherPin
    /\ last.resp.status = 200
    /\ last.resp.cookie = 2
    /\ DOMAIN sessions = {2}
    /\ sessions[2].user_id = users[1].user_id
    /\ before.sessions = <<>>

\* the name of the last request was a user's name when the request arrived
NameTaken ==
    \E i \in 1..Len(before.users) : before.users[i].name = last.req.name

\* C17: no two users share a name, and a register naming an existing user
\* (the same text exactly) is refused and changes nothing.
C17_NamesUnique ==
    /\ \A i, j \in 1..Len(users) : users[i].name = users[j].name => i = j
    /\ (last.req.op = "register" /\ NameTaken)
       => /\ last.resp = HTTPException(400, "User already exists")
          /\ NothingChanged

\* two users are registered and a second "ann", with a pin of its own, is
\* refused
C17_Witness ==
    /\ last.req.op = "register"
    /\ last.req.name = "ann"
    /\ last.req.pin = ValidPin
    /\ last.resp.status = 400
    /\ Len(users) = 2
    /\ \E i \in 1..2 : users[i].name = "ann" /\ users[i].pin = OtherPin

\* the pin of the last request is not four digits: it is too short, too
\* long, empty, or holds a character that is not a digit
BadPin ==
    \/ Len(last.req.pin) # 4
    \/ \E i \in 1..Len(last.req.pin) :
          last.req.pin[i] \notin AsciiDigits \cup OtherDigits

\* C18 as stated: a register whose pin is not four digits is answered with
\* the validation error, adds no user and creates no session.
C18_BadPinValidationError ==
    (last.req.op = "register" /\ BadPin)
    => /\ last.resp = HTTPException(400, "PIN must be exactly 4 digits")
       /\ NothingChanged

\* C18 amended: a register whose pin is not four digits is refused with
\* status 400, adds no user and creates no session; the error is the
\* validation error when the name is free and "User already exists" when
\* the name is taken.
C18_BadPinRejected ==
    (last.req.op = "register" /\ BadPin)
    => /\ last.resp.status = 400
       /\ ~NameTaken => last.resp.detail = "PIN must be exactly 4 digits"
       /\ NameTaken => last.resp.detail = "User already exists"
       /\ NothingChanged

\* a free name with a pin holding a letter is refused while a user exists
C18_Witness ==
    /\ last.req.op = "register"
    /\ last.req.pin = <<"1", "2", "a", "4">>
    /\ ~NameTaken
    /\ last.resp = HTTPException(400, "PIN must be exactly 4 digits")
    /\ Len(users) = 1
    /\ NothingChanged

\* the users file grows by one user at its end, whose id is positive and
\* above every id in the file, or stays as it is
UsersOnlyGrow ==
    users' # users =>
        \E new \in {users'[Len(users')]} :
            /\ users' = Append(users, new)
            /\ new.user_id > 0
            /\ \A i \in 1..Len(users) : new.user_id > users[i].user_id

\* C19: user ids are positive, each registration gets an id above every id
\* given before, and no id is given twice.
C19_UserIdsIncrease ==
    /\ [](\A i, j \in 1..Len(users) :
             /\ users[i].user_id > 0
             /\ i < j => users[i].user_id < users[j].user_id)
    /\ [][UsersOnlyGrow]_vars

\* a second registration, after the first user logged out, gets id 2
C19_Witness ==
    /\ last.req.op = "register"
    /\ last.resp.status = 200
    /\ Len(users) = 2
    /\ users[1].user_id = 1
    /\ users[2].user_id = 2
    /\ DOMAIN sessions = {2}

\* C20: every stored user has a non-empty name and a pin of exactly four
\* ASCII digits.
C20_StoredUsersWellFormed ==
    \A i \in 1..Len(users) :
        /\ users[i].name # ""
        /\ Len(users[i].pin) = 4
        /\ \A k \in 1..Len(users[i].pin) : users[i].pin[k] \in AsciiDigits

-----------------------------------------------------------------------------
(* The server and its data directory: the handlers over JSON files that   *)
(* may hold no list.                                                      *)

MaxLoadTokens == 2   \* session tokens generated while the files are followed
MaxLoadRecords == 1  \* the cap of workouts.json while the files are followed

\* the files after a handler: init_data() ran when the handler made a load,
\* and save_users() / save_workouts() leave a JSON list
FilesAfter(req, o) ==
    LET fs == IF Reads(req) THEN init_data(files) ELSE files
    IN  [users |-> IF o.users # users THEN "list" ELSE fs.users,
         workouts |-> IF o.workouts # workouts THEN "list" ELSE fs.workouts]

StoreServe(req) ==
    \E o \in {Handler(req)} :
        /\ Len(o.workouts) <= MaxLoadRecords
        /\ o.issued <= MaxLoadTokens
        /\ Run(o)
        /\ files' = FilesAfter(req, o)
        /\ last' = [existed |-> Existed(req), req |-> req, resp |-> o.resp,
                    uid |-> Caller(req)]
        /\ before' = [files |-> files, sessions |-> sessions, users |-> users,
                      workouts |-> workouts]
        /\ UNCHANGED <<today, pending, finished, probe, repeatOf, trip>>

StoreRegister(name, pin) == StoreServe(Req("register", NoToken, NoDate, name, pin))
StoreLogin(name, pin) == StoreServe(Req("login", NoToken, NoDate, name, pin))
StoreLogout(sid) == StoreServe(Req("logout", sid, NoDate, "", NoPin))
StoreMark(sid, date) == StoreServe(Req("mark", sid, date, "", NoPin))
StoreUnmark(sid, date) == StoreServe(Req("unmark", sid, date, "", NoPin))
StoreDashboard(sid) == StoreServe(Req("dashboard", sid, NoDate, "", NoPin))
StoreLeaderboard(sid) == StoreServe(Req("leaderboard", sid, NoDate, "", NoPin))

StoreNames == {"ann"}
StoreTokens == 0..MaxLoadTokens

\* the data directory as a request may find it: each file in any condition
InitLoad ==
    /\ files \in [users : FileConditions, workouts : FileConditions]
    /\ users = <<>>
    /\ workouts = <<>>
    /\ sessions = <<>>
    /\ issued = 0
    /\ today = FirstDay
    /\ pending = {}
    /\ finished = {}
    /\ last = NoLast
    /\ before = NoBefore
    /\ repeatOf = NoLast
    /\ trip = NoTrip
    /\ probe = NoProbe

NextLoad ==
    \/ \E name \in StoreNames : StoreRegister(name, ValidPin)
    \/ \E name \in StoreNames : StoreLogin(name, ValidPin)
    \/ \E sid \in StoreTokens : StoreLogout(sid)
    \/ \E sid \in StoreTokens : \E date \in AuthDatesFor(sid) : StoreMark(sid, date)
    \/ \E sid \in StoreTokens : \E date \in AuthDatesFor(sid) : StoreUnmark(sid, date)
    \/ \E sid \in StoreTokens : StoreDashboard(sid)
    \/ \E sid \in StoreTokens : StoreLeaderboard(sid)

SpecLoad == InitLoad /\ [][NextLoad]_vars

\* a file that is missing, empty or not a JSON document
Damaged == FileConditions \ {"list"}

\* the last request went to a handler that loads a collection
Loading ==
    last.req.op \in {"register", "login", "mark", "unmark", "dashboard",
                     "leaderboard"}

\* C21: a request whose handler loads a collection from a file that is
\* missing, empty or malformed is never answered with an internal error:
\* the load raises nothing and gives the empty list.
C21_LoadNeverRaises ==
    (/\ Loading
     /\ before.files.users \in Damaged \/ before.files.workouts \in Damaged)
        => last.resp.status # 500

\* the same for the files whose bytes are text: json.JSONDecodeError is the
\* only parse failure, and the except clause names it
C21_TextFilesNeverRaise ==
    (/\ Loading
     /\ before.files.users # "undecodable"
     /\ before.files.workouts # "undecodable")
        => last.resp.status # 500

\* a registration over a users.json that did not parse starts from []
C21_Witness ==
    /\ last.req.op = "register"
    /\ before.files.users = "malformed"
    /\ last.resp.status = 200
    /\ files.users = "list"
    /\ Len(users) = 1
    /\ users[1].user_id = 1

-----------------------------------------------------------------------------
(* The streak engine against the five-step algorithm of the specification, *)
(* and against collections that break the ledger's invariants.             *)

\* the records sorted by their date, latest first
RECURSIVE ByDateDescending(_)
ByDateDescending(ws) ==
    IF ws = <<>> THEN <<>>
    ELSE LET k == CHOOSE k \in 1..Len(ws) :
                    \A j \in 1..Len(ws) :
                        fromisoformat(ws[j].date) <= fromisoformat(ws[k].date)
         IN  <<ws[k]>> \o ByDateDescending(SubSeq(ws, 1, k - 1)
                                             \o SubSeq(ws, k + 1, Len(ws)))

\* step 5 of the algorithm: the tolerance branch is taken only while
\* count = 0
RECURSIVE FiveStepWalk(_, _, _)
FiveStepWalk(sorted, count, expected) ==
    IF sorted = <<>> THEN count
    ELSE LET date == fromisoformat(Head(sorted).date) IN
         IF date = expected
         THEN FiveStepWalk(Tail(sorted), count + 1, expected - 1)
         ELSE IF date = expected + 1 /\ count = 0
         THEN FiveStepWalk(Tail(sorted), count, expected)
         ELSE IF date > expected
         THEN FiveStepWalk(Tail(sorted), count, expected)
         ELSE count

\* steps 1 to 6
FiveStepStreak(user_id, records, day) ==
    LET filtered == SelectSeq(records,
                        LAMBDA r : r.user_id = user_id /\ r.workout_done)
    IN  IF filtered = <<>> THEN 0
        ELSE FiveStepWalk(ByDateDescending(filtered), 0, day)

\* C22: for every user, every collection (duplicates, out-of-order and
\* future-dated records included) and every today, calculate_streak returns
\* the count of the five-step algorithm whose tolerance branch applies only
\* while count = 0.
C22_StreakMatchesFiveSteps ==
    Probed => probe.streak = FiveStepStreak(probe.user_id, workouts, today)

\* a duplicate of the day just counted meets the loop's tolerance test with
\* streak = 1, out of order and with a future-dated record in the list
C22_Witness ==
    /\ Probed
    /\ workouts = <<Workout(probe.user_id, isoformat(today - 1), TRUE),
                    Workout(probe.user_id, isoformat(today), TRUE),
                    Workout(probe.user_id, isoformat(today + 1), TRUE),
                    Workout(probe.user_id, isoformat(today), TRUE)>>
    /\ probe.streak = 2

\* the list with record r put after its first k records
InsertAt(ws, k, r) == SubSeq(ws, 1, k) \o <<r>> \o SubSeq(ws, k + 1, Len(ws))

\* the list with the records at positions i and j exchanged
Exchanged(ws, i, j) ==
    [k \in 1..Len(ws) |-> IF k = i THEN ws[j] ELSE IF k = j THEN ws[i] ELSE ws[k]]

\* C23: the streak of u does not change when a duplicate of one of u's
\* records is added, when a record of u dated after today is added, or when
\* the collection is reordered.  The record is added in front of the list
\* and at its end.  Every list is a state here and every reordering is a
\* chain of exchanges of two records, so the exchanges of every state cover
\* every reordering.
C23_StreakIgnoresLedgerViolations ==
    Probed =>
        LET u == probe.user_id
            n == Len(workouts)
        IN  /\ \A i \in 1..n, k \in {0, n} :
                  workouts[i].user_id = u =>
                      calculate_streak(u, InsertAt(workouts, k, workouts[i]))
                          = probe.streak
            /\ \A d \in (today + 1)..(MaxDay + 2), done \in BOOLEAN, k \in {0, n} :
                  calculate_streak(u,
                      InsertAt(workouts, k, Workout(u, isoformat(d), done)))
                          = probe.streak
            /\ \A i, j \in 1..n :
                  i < j => calculate_streak(u, Exchanged(workouts, i, j))
                               = probe.streak

\* a collection that already holds a duplicate and a future-dated record of
\* u, not in date order, with a streak of 2
C23_Witness ==
    /\ Probed
    /\ DoneDays(probe.user_id) = {today - 1, today, today + 1}
    /\ \E i, j \in 1..Len(workouts) : i < j /\ workouts[i] = workouts[j]
    /\ StrLess(workouts[1].date, workouts[2].date)
    /\ probe.streak = 2

-----------------------------------------------------------------------------
(* The order of leaderboard entries with equal keys. *)

\* the id of the registered user an entry names (names are unique)
EntryUserId(entry) ==
    (CHOOSE i \in 1..Len(users) : users[i].name = entry.name)

\* C24: leaderboard entries with the same streak and the same total are in
\* ascending order of user id, the order in which the users registered.
C24_TiesInRegistrationOrder ==
    Ranking =>
        \A k, l \in 1..Len(last.resp.board) :
            LET hi == last.resp.board[k]
                lo == last.resp.board[l]
            IN  (/\ k < l
                 /\ hi.current_streak = lo.current_streak
                 /\ hi.total_workout_days = lo.total_workout_days)
                    => users[EntryUserId(hi)].user_id < users[EntryUserId(lo)].user_id

\* three users with one record each, all dated today, listed in workouts.json
\* from the last user to the first: the entries are ann, bob, cat
C24_Witness ==
    /\ Ranking
    /\ Len(last.resp.board) = 3
    /\ \A k \in 1..3 : /\ last.resp.board[k].current_streak = 1
                       /\ last.resp.board[k].total_workout_days = 1
                       /\ last.resp.board[k].name = BoardNames[k]
                       /\ users[k].user_id = k
    /\ workouts[1].user_id = 3
    /\ workouts[3].user_id = 1

-----------------------------------------------------------------------------
(* Two marks of the same day in flight together. *)

\* the records of user uid dated date
RecordsOf(uid, date) ==
    {i \in 1..Len(workouts) : workouts[i].user_id = uid /\ workouts[i].date = date}

\* no request other than f and g, handled or waiting, is a mark or an unmark
\* of the day f names for the user f acted for
OnlyThese(f, g) ==
    /\ \A h \in finished \ {f, g} :
          ~(h.req.op \in {"mark", "unmark"} /\ h.uid = f.uid
            /\ h.req.date = f.req.date)
    /\ \A p \in pending :
          ~(p.req.op \in {"mark", "unmark"} /\ Caller(p.req) = f.uid
            /\ p.req.date = f.req.date)

\* C25: two marks of the same user and date that were in flight together,
\* sent when the user had no record of that date, leave exactly one record
\* of the date for the user, and exactly one of them is answered applied.
C25_ConcurrentMarksApplyOnce ==
    \A f, g \in finished :
        (/\ f # g
         /\ Concurrent(f, g)
         /\ f.req.op = "mark" /\ g.req.op = "mark"
         /\ f.resp.status = 200 /\ g.resp.status = 200
         /\ f.uid = g.uid
         /\ f.req.date = g.req.date
         /\ OnlyThese(f, g))
            => /\ Cardinality(RecordsOf(f.uid, f.req.date)) = 1
               /\ f.resp.success # g.resp.success

\* ann marks yesterday twice with both requests waiting together, after a
\* mark of today: one record of yesterday, one answer applied
C25_Witness ==
    /\ pending = {}
    /\ Len(workouts) = 2
    /\ \E f, g \in finished :
          /\ f # g
          /\ g.id \in f.with
          /\ f.req.op = "mark" /\ g.req.op = "mark"
          /\ f.uid = 1 /\ g.uid = 1
          /\ f.req.date = isoformat(today - 1) /\ g.req.date = isoformat(today - 1)
          /\ f.resp.status = 200 /\ g.resp.status = 200
          /\ f.resp.success /\ ~g.resp.success
          /\ Cardinality(RecordsOf(1, isoformat(today - 1))) = 1

-----------------------------------------------------------------------------
(* Streak and total of the stored users. *)

\* C26: in every state reached through register, mark and unmark the streak
\* of each user is at most the user's number of done records, so a user with
\* a streak above 0 has a total above 0.
C26_StreakAtMostTotal ==
    \A i \in 1..Len(users) :
        LET streak == calculate_streak(users[i].user_id, read_workouts)
            total == total_days(users[i].user_id, read_workouts)
        IN  /\ streak <= total
            /\ streak > 0 => total > 0

\* the first user with records today and two days ago: streak 1, total 2;
\* the second user without a record
C26_Witness ==
    /\ Len(users) = 2
    /\ HasDone(users[1].user_id, today) /\ HasDone(users[1].user_id, today - 2)
    /\ calculate_streak(users[1].user_id, read_workouts) = 1
    /\ total_days(users[1].user_id, read_workouts) = 2
    /\ calculate_streak(users[2].user_id, read_workouts) = 0

-----------------------------------------------------------------------------
(* What a mark or an unmark leaves alone. *)

\* the records of the users other than u, in file order
RecordsOfOthers(u, ws) == SelectSeq(ws, LAMBDA w : w.user_id # u)

\* C27: a mark or an unmark under the session of user u, whatever date it
\* carries and however it is answered, leaves the records of every other
\* user, users.json and the sessions as they were.
C27_MarkUnmarkFrame ==
    (last.req.op \in {"mark", "unmark"} /\ last.uid # NoUser)
        => /\ RecordsOfOthers(last.uid, workouts)
                  = RecordsOfOthers(last.uid, before.workouts)
           /\ users = before.users
           /\ sessions = before.sessions

\* the second user removes their record of a day for which the first user
\* has one too
C27_Witness ==
    /\ last.req.op = "unmark"
    /\ last.resp.status = 200 /\ last.resp.success
    /\ last.uid = 2
    /\ Len(before.workouts) = 2
    /\ before.workouts[1].date = before.workouts[2].date
    /\ workouts = <<Workout(1, last.req.date, TRUE)>>

-----------------------------------------------------------------------------
(* Data upload: POST /data/upload replaces the JSON files by the entries of *)
(* a zip archive.  An entry of the archive is absent, holds a file in some  *)
(* condition, or is corrupt: its extraction fails (zipfile.BadZipFile, Bad  *)
(* CRC-32) after the target file has been opened for writing.               *)

ZipName == <<"backup", ".zip">>
JsonName == <<"backup", ".json">>

\* file.filename.endswith(suffix), a file name being its stem and its suffix
endswith(filename, suffix) ==
    filename # <<>> /\ filename[Len(filename)] = suffix

Absent == [content |-> <<>>, kind |-> "absent"]
Corrupt == [content |-> <<>>, kind |-> "corrupt"]
Holding(condition, list) == [content |-> list, kind |-> condition]

\* the archives tried: one that zipfile cannot open, and every pairing of a
\* users.json entry and a workouts.json entry
UsersEntries ==
    {Absent, Corrupt, Holding("list", <<>>),
     Holding("list", <<User(1, "bob", ValidPin)>>),
     Holding("malformed", <<>>), Holding("undecodable", <<>>)}
WorkoutsEntries ==
    {Absent, Corrupt, Holding("list", <<>>),
     Holding("list", <<Workout(1, isoformat(today), TRUE)>>),
     Holding("empty", <<>>)}
Archives ==
    [readable : {TRUE}, users : UsersEntries, workouts : WorkoutsEntries]
    \cup {[readable |-> FALSE, users |-> Absent, workouts |-> Absent]}

\* what a failed extraction leaves of the target file: nothing when the
\* failure comes before the first write, a part of the entry otherwise
Torn == {"empty", "malformed"}

\* what an upload leaves behind
Uploaded(resp, fs, us, ws, ss) ==
    [files |-> fs, resp |-> resp, sessions |-> ss, users |-> us, workouts |-> ws]

\* except Exception as e: raise HTTPException(500, f"Upload failed: {e}")
UploadFailed(fs, us, ws) ==
    Uploaded(HTTPException(500, "Upload failed"), fs, us, ws, sessions)

\* the outcomes of upload_data(file); the HTTPException of an archive with
\* neither entry is raised inside the try and leaves as "Upload failed" too
upload_data_outcomes(filename, zip) ==
    IF ~endswith(filename, ".zip")
    THEN {Uploaded(HTTPException(400, "Only .zip files are supported"),
                   files, users, workouts, sessions)}
    ELSE IF ~zip.readable
    THEN {UploadFailed(files, users, workouts)}
    ELSE IF zip.users.kind = "absent" /\ zip.workouts.kind = "absent"
    THEN {UploadFailed(files, users, workouts)}
    ELSE IF zip.users.kind = "corrupt"
    THEN {UploadFailed([files EXCEPT !.users = c], <<>>, workouts) : c \in Torn}
    ELSE
      LET fu == IF zip.users.kind = "absent" THEN files.users ELSE zip.users.kind
          us == IF zip.users.kind = "absent" THEN users ELSE zip.users.content
      IN  IF zip.workouts.kind = "corrupt"
          THEN {UploadFailed([users |-> fu, workouts |-> c], us, <<>>) : c \in Torn}
          ELSE
            LET fw == IF zip.workouts.kind = "absent" THEN files.workouts
                      ELSE zip.workouts.kind
                ws == IF zip.workouts.kind = "absent" THEN workouts
                      ELSE zip.workouts.content
            IN  {Uploaded([message |-> "Data successfully restored",
                           status |-> 200, success |-> TRUE],
                          [users |-> fu, workouts |-> fw],
                          us, ws, <<>>)}

\* a file is uploaded and the handler runs to its end
upload_data(filename, zip) ==
    \E o \in upload_data_outcomes(filename, zip) :
        /\ files' = o.files
        /\ users' = o.users
        /\ workouts' = o.workouts
        /\ sessions' = o.sessions
        /\ last' = [existed |-> FALSE,
                    req |-> Req("upload", NoToken, NoDate, "", NoPin),
                    resp |-> o.resp, uid |-> NoUser]
        /\ before' = [files |-> files, sessions |-> sessions, users |-> users,
                      workouts |-> workouts]
        /\ UNCHANGED <<issued, today, pending, finished, probe, repeatOf, trip>>

UploadNames == StoreNames \cup {"bob"}

NextStore ==
    \/ \E name \in StoreNames : StoreRegister(name, ValidPin)
    \/ \E name \in UploadNames : StoreLogin(name, ValidPin)
    \/ \E sid \in StoreTokens : StoreLogout(sid)
    \/ \E sid \in StoreTokens : \E date \in AuthDatesFor(sid) : StoreMark(sid, date)
    \/ \E sid \in StoreTokens : \E date \in AuthDatesFor(sid) : StoreUnmark(sid, date)
    \/ \E filename \in {ZipName, JsonName}, zip \in Archives :
          upload_data(filename, zip)

SpecStore == Init /\ [][NextStore]_vars

\* the last request was an upload that changed users.json or workouts.json
Replaced ==
    /\ last.req.op = "upload"
    /\ \/ users # before.users \/ workouts # before.workouts
       \/ files # before.files

\* C28: every session carries the user_id and the name of a user stored in
\* users.json, and an upload that replaced a collection has left no session.
C28_SessionsNameStoredUsers ==
    /\ \A t \in DOMAIN sessions :
          \E i \in 1..Len(read_users) :
              /\ read_users[i].user_id = sessions[t].user_id
              /\ read_users[i].name = sessions[t].name
    /\ Replaced => sessions = <<>>

\* the same for the uploads that are answered with success
C28_UploadAnsweredSuccessClears ==
    (last.req.op = "upload" /\ last.resp.status = 200) => sessions = <<>>

\* ann holds a session and an upload with another users.json succeeds
C28_Witness ==
    /\ last.req.op = "upload"
    /\ last.resp.status = 200
    /\ DOMAIN before.sessions # {}
    /\ before.users # users
    /\ sessions = <<>>

====
